---- MODULE Spec2Model ----
(***************************************************************************)
(* Model of resources/escapeText.py (class EscapeText): segmentation of a  *)
(* string into plain and escaped spans, and proportional reinsertion of    *)
(* the escaped spans into a translated string.                             *)
(*                                                                         *)
(* A Python str is a sequence of one-character strings.  A list entry of   *)
(* convertStringToList is a record: a str entry is [esc |-> FALSE, ...],   *)
(* a one-element list entry [ '...' ] is [esc |-> TRUE, ...].  A dict is a *)
(* sequence of <<key, value>> pairs in insertion order.  A call result is  *)
(* [status, value] where status is "ok" or the name of the exception.      *)
(***************************************************************************)
EXTENDS Integers, Sequences, FiniteSets, TLC

VARIABLES defaultEscapeSchema, pythonEscapeSequences, ctx, translated, out

vars == <<defaultEscapeSchema, pythonEscapeSequences, ctx, translated, out>>

---------------------------------------------------------------------------
(* Bounds of the model *)

MaxLen == 4
MaxSrcLen == 11
MaxTrans == 3
MaxSequences == 3
MaxOriginal == 14
MaxTranslation == 21

(* Alphabets: a plain letter, the split delimiter, two bracket pairs and   *)
(* the backslash that starts the literal escape sequences.                 *)
SegChars == {"n", "<", ">", "[", "]", "\\"}
TransChars == {"n", " "}
Chars == SegChars \cup TransChars

Contexts == {1, 2}

---------------------------------------------------------------------------
(* Python str primitives *)

Min(S) == CHOOSE x \in S : \A y \in S : x <= y
Max(S) == CHOOSE x \in S : \A y \in S : x >= y

\* s[a:b] for 0 <= a, 0 <= b (indices past the end are clamped)
Slice(s, a, b) == SubSeq(s, a + 1, IF b < Len(s) THEN b ELSE Len(s))

\* s[a:]
SliceFrom(s, a) == SubSeq(s, a + 1, Len(s))

\* s.find(sub)
Find(s, sub) ==
    LET idx == {i \in 0..(Len(s) - Len(sub)) : SubSeq(s, i + 1, i + Len(sub)) = sub}
    IN IF idx = {} THEN -1 ELSE Min(idx)

\* s.rfind(sub)
RFind(s, sub) ==
    LET idx == {i \in 0..(Len(s) - Len(sub)) : SubSeq(s, i + 1, i + Len(sub)) = sub}
    IN IF idx = {} THEN -1 ELSE Max(idx)

\* s.count(sub): non-overlapping occurrences, leftmost first (sub non-empty)
RECURSIVE Count(_, _)
Count(s, sub) ==
    LET i == Find(s, sub)
    IN IF i = -1 THEN 0 ELSE 1 + Count(SliceFrom(s, i + Len(sub)), sub)

\* s.partition(sep): <<before, sep, after>>, or <<s, '', ''>> when sep is absent
Partition(s, sep) ==
    LET i == Find(s, sep)
    IN IF i = -1 THEN <<s, <<>>, <<>>>>
       ELSE <<Slice(s, 0, i), sep, SliceFrom(s, i + Len(sep))>>

\* dict[key]
Lookup(d, key) == LET k == CHOOSE k \in 1..Len(d) : d[k][1] = key IN d[k][2]

\* dict[key] = value (an existing key keeps its position)
DictSet(d, key, value) ==
    IF \E k \in 1..Len(d) : d[k][1] = key
    THEN [k \in 1..Len(d) |-> IF d[k][1] = key THEN <<key, value>> ELSE d[k]]
    ELSE Append(d, <<key, value>>)

\* isinstance( item, str ): a str is made of characters only
IsStr(item) == \A k \in 1..Len(item) : item[k] \in Chars

Plain(t) == [esc |-> FALSE, text |-> t]
Escaped(t) == [esc |-> TRUE, text |-> t]

RECURSIVE Concat(_)
Concat(texts) == IF texts = <<>> THEN <<>> ELSE Head(texts) \o Concat(Tail(texts))

Texts(list) == [k \in 1..Len(list) |-> list[k].text]

---------------------------------------------------------------------------
(* convertStringToList: bracket pass (lines 274-312) *)

\* lines 274-277: occurrences of the keys whose key and value both occur
RECURSIVE schemaFoundCounterOf(_, _, _)
schemaFoundCounterOf(string, escapeSchema, k) ==
    IF k > Len(escapeSchema) THEN 0
    ELSE (IF Find(string, escapeSchema[k][1]) # -1 /\ Find(string, escapeSchema[k][2]) # -1
          THEN Count(string, escapeSchema[k][1]) ELSE 0)
         + schemaFoundCounterOf(string, escapeSchema, k + 1)

\* [ None, None ]
NoneEntry == [index |-> -1, key |-> <<>>]

\* lines 291-295 without the comparison: every key found replaces the entry
lowerSchemaEntry_LastFound(cur, key, f) ==
    IF f # -1 THEN [index |-> f, key |-> key] ELSE cur

\* line 294 with <= in place of <: a key at the same index replaces the entry
lowerSchemaEntry_LastWins(cur, key, f) ==
    IF f # -1
    THEN (IF cur.index = -1 THEN [index |-> f, key |-> key]
          ELSE IF f <= cur.index THEN [index |-> f, key |-> key]
          ELSE cur)
    ELSE cur

\* lines 290-295: one key of the table against the lowest index so far, f its index
lowerSchemaEntry(cur, key, f) ==
    IF f # -1
    THEN (IF cur.index = -1 THEN [index |-> f, key |-> key]
          ELSE IF f < cur.index THEN [index |-> f, key |-> key]
          ELSE cur)
    ELSE cur

\* lines 288-295: scan of the table for the key with the lowest index
RECURSIVE currentLowestIndexSchema(_, _, _, _)
currentLowestIndexSchema(tempString, escapeSchema, k, cur) ==
    IF k > Len(escapeSchema) THEN cur
    ELSE currentLowestIndexSchema(tempString, escapeSchema, k + 1,
             lowerSchemaEntry(cur, escapeSchema[k][1], Find(tempString, escapeSchema[k][1])))

\* line 304 with the slice ending before the closing delimiter
schemaEntry_WithoutCloser(tempString, endIndex) == Escaped(Slice(tempString, 0, endIndex))

\* line 304: the bracketed span appended as an escaped entry
schemaEntry(tempString, endIndex) == Escaped(Slice(tempString, 0, endIndex + 1))

RECURSIVE schemaLoop(_, _, _, _, _)

\* lines 307-309: the end of one iteration, tempString being the text that is left
schemaNext(i, schemaFoundCounterBackup, tempString, tempList, escapeSchema) ==
    schemaLoop(i + 1, schemaFoundCounterBackup, tempString,
               IF i + 1 = schemaFoundCounterBackup THEN Append(tempList, Plain(tempString))
               ELSE tempList,
               escapeSchema)

\* lines 303-305: tempString starts with the key, closer is its closing delimiter
schemaClose(i, schemaFoundCounterBackup, tempString, tempList, escapeSchema, closer) ==
    schemaNext(i, schemaFoundCounterBackup, Partition(tempString, closer)[3],
               Append(tempList, schemaEntry(tempString, Find(tempString, closer))),
               escapeSchema)

\* lines 297-301: the text before the key becomes a str entry
schemaOpen(i, schemaFoundCounterBackup, tempString, tempList, escapeSchema, cur) ==
    IF cur.index = -1
    THEN \* tempString.partition( None )
         [status |-> "TypeError", tempList |-> tempList,
          schemaFoundCounter |-> schemaFoundCounterBackup - i]
    ELSE schemaClose(i, schemaFoundCounterBackup,
                     IF cur.index # 0 THEN cur.key \o Partition(tempString, cur.key)[3]
                     ELSE tempString,
                     IF cur.index # 0
                     THEN Append(tempList, Plain(Partition(tempString, cur.key)[1]))
                     ELSE tempList,
                     escapeSchema, Lookup(escapeSchema, cur.key))

\* line 307 left out: the counter keeps the count of lines 274-277
schemaLoop_NoDecrement(i, schemaFoundCounterBackup, tempString, tempList, escapeSchema) ==
    IF i >= schemaFoundCounterBackup
    THEN [status |-> "ok", tempList |-> tempList,
          schemaFoundCounter |-> schemaFoundCounterBackup]
    ELSE schemaOpen(i, schemaFoundCounterBackup, tempString, tempList, escapeSchema,
                    currentLowestIndexSchema(tempString, escapeSchema, 1, NoneEntry))

\* line 286 as a loop that runs while a key of the table is found
schemaLoop_WhileKeyFound(i, schemaFoundCounterBackup, tempString, tempList, escapeSchema) ==
    IF currentLowestIndexSchema(tempString, escapeSchema, 1, NoneEntry).index = -1
    THEN [status |-> "ok", tempList |-> tempList,
          schemaFoundCounter |-> schemaFoundCounterBackup - i]
    ELSE schemaOpen(i, schemaFoundCounterBackup, tempString, tempList, escapeSchema,
                    currentLowestIndexSchema(tempString, escapeSchema, 1, NoneEntry))

\* lines 286-309: the loop over range( schemaFoundCounter ), i counted from 0
schemaLoop(i, schemaFoundCounterBackup, tempString, tempList, escapeSchema) ==
    IF i >= schemaFoundCounterBackup
    THEN [status |-> "ok", tempList |-> tempList,
          schemaFoundCounter |-> schemaFoundCounterBackup - i]
    ELSE schemaOpen(i, schemaFoundCounterBackup, tempString, tempList, escapeSchema,
                    currentLowestIndexSchema(tempString, escapeSchema, 1, NoneEntry))

\* line 312: assert( schemaFoundCounter == 0 )
schemaAssert(r) ==
    IF r.status = "ok" /\ r.schemaFoundCounter # 0
    THEN [r EXCEPT !.status = "AssertionError"] ELSE r

\* lines 281-283 without the append of the whole string
initialTempList_Empty(string, schemaFoundCounter) == <<>>

\* lines 281-283: tempList before the loop
initialTempList(string, schemaFoundCounter) ==
    IF schemaFoundCounter = 0 THEN <<Plain(string)>> ELSE <<>>

\* lines 280-312, schemaFoundCounter being the count of lines 274-277
schemaCounted(string, escapeSchema, schemaFoundCounter) ==
    schemaAssert(schemaLoop(0, schemaFoundCounter, string,
                            initialTempList(string, schemaFoundCounter), escapeSchema))

\* lines 274-312: the list after the bracket pass
schemaPass(string, escapeSchema) ==
    schemaCounted(string, escapeSchema, schemaFoundCounterOf(string, escapeSchema, 1))

---------------------------------------------------------------------------
(* convertStringToList: escape-sequence pass (lines 319-390) *)

\* lines 332-334
RECURSIVE escapeSequenceFoundCounterOf(_, _, _)
escapeSequenceFoundCounterOf(tempString, escapeSequences, k) ==
    IF k > Len(escapeSequences) THEN 0
    ELSE (IF Find(tempString, escapeSequences[k]) # -1
          THEN Count(tempString, escapeSequences[k]) ELSE 0)
         + escapeSequenceFoundCounterOf(tempString, escapeSequences, k + 1)

\* lines 348-352: one escape sequence against the lowest index so far, f its index
lowerSequenceEntry(cur, item, f) ==
    IF f # -1
    THEN (IF cur.index = -1 THEN [index |-> f, key |-> item]
          ELSE IF cur.index > f THEN [index |-> f, key |-> item]
          ELSE cur)
    ELSE cur

\* lines 346-352: scan of the escape sequences for the one with the lowest index
RECURSIVE currentLowestIndexSequence(_, _, _, _)
currentLowestIndexSequence(tempString, escapeSequences, k, cur) ==
    IF k > Len(escapeSequences) THEN cur
    ELSE currentLowestIndexSequence(tempString, escapeSequences, k + 1,
             lowerSequenceEntry(cur, escapeSequences[k], Find(tempString, escapeSequences[k])))

RECURSIVE sequenceLoop(_, _, _, _, _)

\* lines 366-368: the end of one iteration, tempString being the text that is left
sequenceNext(i, escapeSequenceFoundCounterBackup, tempString, tempList2, escapeSequences) ==
    sequenceLoop(i + 1, escapeSequenceFoundCounterBackup, tempString,
                 IF i + 1 = escapeSequenceFoundCounterBackup
                 THEN Append(tempList2, Plain(tempString)) ELSE tempList2,
                 escapeSequences)

\* line 364 with the slice of line 304: one character of item is kept
sequenceClose_OneCharacter(i, escapeSequenceFoundCounterBackup, tempString, tempList2, escapeSequences, item) ==
    sequenceNext(i, escapeSequenceFoundCounterBackup, Partition(tempString, item)[3],
                 Append(tempList2, Escaped(Slice(tempString, 0, Find(tempString, item) + 1))),
                 escapeSequences)

\* lines 362-365: tempString starts with item
sequenceClose(i, escapeSequenceFoundCounterBackup, tempString, tempList2, escapeSequences, item) ==
    sequenceNext(i, escapeSequenceFoundCounterBackup, Partition(tempString, item)[3],
                 Append(tempList2,
                        Escaped(Slice(tempString, 0, Find(tempString, item) + Len(item)))),
                 escapeSequences)

\* lines 356-360: index is tempString.find( item )
sequenceCut(i, escapeSequenceFoundCounterBackup, tempString, tempList2, escapeSequences, item, index) ==
    sequenceClose(i, escapeSequenceFoundCounterBackup,
                  IF index # 0 THEN item \o Partition(tempString, item)[3] ELSE tempString,
                  IF index # 0 THEN Append(tempList2, Plain(Partition(tempString, item)[1]))
                  ELSE tempList2,
                  escapeSequences, item)

\* lines 354-356: cur is currentLowestIndex
sequenceOpen(i, escapeSequenceFoundCounterBackup, tempString, tempList2, escapeSequences, cur) ==
    IF cur.index = -1
    THEN \* tempString.find( None )
         [status |-> "TypeError", tempList2 |-> tempList2,
          escapeSequenceFoundCounter |-> escapeSequenceFoundCounterBackup - i]
    ELSE sequenceCut(i, escapeSequenceFoundCounterBackup, tempString, tempList2,
                     escapeSequences, cur.key, Find(tempString, cur.key))

\* lines 345-368: the loop over range( escapeSequenceFoundCounter ), i counted from 0
sequenceLoop(i, escapeSequenceFoundCounterBackup, tempString, tempList2, escapeSequences) ==
    IF i >= escapeSequenceFoundCounterBackup
    THEN [status |-> "ok", tempList2 |-> tempList2,
          escapeSequenceFoundCounter |-> escapeSequenceFoundCounterBackup - i]
    ELSE sequenceOpen(i, escapeSequenceFoundCounterBackup, tempString, tempList2, escapeSequences,
                      currentLowestIndexSequence(tempString, escapeSequences, 1, NoneEntry))

\* line 370: assert( escapeSequenceFoundCounter == 0 )
sequenceAssert(r) ==
    IF r.status = "ok" /\ r.escapeSequenceFoundCounter # 0
    THEN [r EXCEPT !.status = "AssertionError"] ELSE r

\* lines 339-370, escapeSequenceFoundCounter being the count of lines 332-334;
\* "skip" when line 340 continues
splitCounted(entry, escapeSequences, escapeSequenceFoundCounter) ==
    IF escapeSequenceFoundCounter = 0
    THEN [status |-> "skip", tempList2 |-> <<>>, escapeSequenceFoundCounter |-> 0]
    ELSE sequenceAssert(sequenceLoop(0, escapeSequenceFoundCounter, entry, <<>>,
                                     escapeSequences))

\* lines 327-370 for one str entry
splitEntry(entry, escapeSequences) ==
    IF \E k \in 1..Len(escapeSequences) : ~IsStr(escapeSequences[k])
    THEN \* entry.find( <a list> )
         [status |-> "TypeError", tempList2 |-> <<>>, escapeSequenceFoundCounter |-> 0]
    ELSE splitCounted(entry, escapeSequences,
                      escapeSequenceFoundCounterOf(entry, escapeSequences, 1))

\* adjustEntryMappings[ entry ] = tempList2.copy()
DictPut(mappings, entry, tempList2) ==
    [e \in DOMAIN mappings \cup {entry} |-> IF e = entry THEN tempList2 ELSE mappings[e]]

\* lines 326 and 380 taking every entry for a str
isStrEntry_Always(entry) == TRUE

\* lines 326 and 380: isinstance( entry, str )
isStrEntry(entry) == ~entry.esc

RECURSIVE mappingLoop(_, _, _, _)

\* lines 339-372: what the split r of entry k does to adjustEntryMappings
mappingStore(tempList, k, escapeSequences, mappings, r) ==
    IF r.status = "skip" THEN mappingLoop(tempList, k + 1, escapeSequences, mappings)
    ELSE IF r.status = "ok"
    THEN mappingLoop(tempList, k + 1, escapeSequences,
                     DictPut(mappings, tempList[k].text, r.tempList2))
    ELSE [status |-> r.status, mappings |-> mappings]

\* lines 323-372: the loop over tempList that fills adjustEntryMappings
mappingLoop(tempList, k, escapeSequences, mappings) ==
    IF k > Len(tempList) THEN [status |-> "ok", mappings |-> mappings]
    ELSE IF ~isStrEntry(tempList[k])
    THEN mappingLoop(tempList, k + 1, escapeSequences, mappings)
    ELSE mappingStore(tempList, k, escapeSequences, mappings,
                      splitEntry(tempList[k].text, escapeSequences))

\* line 383 left out: the entry that was split stays in the list
ListRemove_Keeps(list, entry) == list

\* list.remove( entry ): the first str entry equal to entry is removed
ListRemove(list, entry) ==
    LET k == Min({j \in 1..Len(list) : isStrEntry(list[j]) /\ list[j].text = entry})
    IN SubSeq(list, 1, k - 1) \o SubSeq(list, k + 1, Len(list))

\* repeated list.insert( pos, x ) over reversed( items )
ListInsert(list, pos, items) ==
    LET p == IF pos < Len(list) THEN pos ELSE Len(list)
    IN SubSeq(list, 1, p) \o items \o SubSeq(list, p + 1, Len(list))

RECURSIVE reassemble(_, _, _, _, _)

\* line 386 counting one entry for the items inserted
reassemble_CountsOne(copy, k, listCounter, tempList, mappings) ==
    IF k > Len(copy) THEN tempList
    ELSE IF isStrEntry(copy[k]) /\ copy[k].text \in DOMAIN mappings
    THEN reassemble(copy, k + 1, listCounter + 1,
                    ListInsert(ListRemove(tempList, copy[k].text), listCounter,
                               mappings[copy[k].text]),
                    mappings)
    ELSE reassemble(copy, k + 1, listCounter + 1, tempList, mappings)

\* lines 378-388: the loop over tempList.copy()
reassemble(copy, k, listCounter, tempList, mappings) ==
    IF k > Len(copy) THEN tempList
    ELSE IF isStrEntry(copy[k]) /\ copy[k].text \in DOMAIN mappings
    THEN reassemble(copy, k + 1, listCounter + Len(mappings[copy[k].text]),
                    ListInsert(ListRemove(tempList, copy[k].text), listCounter,
                               mappings[copy[k].text]),
                    mappings)
    ELSE reassemble(copy, k + 1, listCounter + 1, tempList, mappings)

\* lines 376-390, m being the outcome of the loop of lines 325-372
sequenceReassemble(tempList, m) ==
    IF m.status # "ok" THEN [status |-> m.status, value |-> <<>>]
    ELSE [status |-> "ok",
          value |-> IF DOMAIN m.mappings # {}
                    THEN reassemble(tempList, 1, 0, tempList, m.mappings)
                    ELSE tempList]

\* lines 319-390
sequencePass(tempList, escapeSequences) ==
    IF Len(escapeSequences) = 0 THEN [status |-> "ok", value |-> tempList]
    ELSE sequenceReassemble(tempList, mappingLoop(tempList, 1, escapeSequences, <<>>))

\* lines 312-319: an exception of the bracket pass leaves the function
afterSchemaPass(p1, escapeSequences) ==
    IF p1.status # "ok" THEN [status |-> p1.status, value |-> <<>>]
    ELSE sequencePass(p1.tempList, escapeSequences)

\* lines 273-390
convertStringToList(string, escapeSchema, escapeSequences) ==
    afterSchemaPass(schemaPass(string, escapeSchema), escapeSequences)

---------------------------------------------------------------------------
(* asAList and text (lines 198-234) *)

\* line 203 left out: every entry is kept
keepEntry_KeepsEmpty(entry) == TRUE

\* line 203 comparing the text of a list entry as well
keepEntry_DropsEmptyList(entry) == entry.text # <<>>

\* line 203: entry != ''  (a list entry never equals a str)
keepEntry(entry) == ~(~entry.esc /\ entry.text = <<>>)

\* lines 200-205: the loop that copies the kept entries
RECURSIVE filterEntries(_, _, _)
filterEntries(tempList2, k, tempList) ==
    IF k > Len(tempList2) THEN tempList
    ELSE filterEntries(tempList2, k + 1,
                       IF keepEntry(tempList2[k]) THEN Append(tempList, tempList2[k])
                       ELSE tempList)

\* lines 200-205, r being what convertStringToList returned or raised
filterResult(r) ==
    IF r.status # "ok" THEN r
    ELSE [status |-> "ok", value |-> filterEntries(r.value, 1, <<>>)]

\* lines 198-205
get_asAList(string, escapeSchema, escapeSequences) ==
    filterResult(convertStringToList(string, escapeSchema, escapeSequences))

\* lines 230-233: the loop that concatenates the str entries
RECURSIVE textLoop(_, _, _)
textLoop(asAList, k, tempText) ==
    IF k > Len(asAList) THEN tempText
    ELSE textLoop(asAList, k + 1,
                  IF ~asAList[k].esc THEN tempText \o asAList[k].text ELSE tempText)

\* lines 225-234, r being what self.asAList returned or raised
textResult(r) ==
    IF r.status # "ok" THEN r
    ELSE [status |-> "ok", value |-> textLoop(r.value, 1, <<>>)]

\* lines 223-234
text(string, escapeSchema, escapeSequences) ==
    textResult(get_asAList(string, escapeSchema, escapeSequences))

---------------------------------------------------------------------------
(* convertTranslatedStringToList and _adjustIndex (lines 424-521) *)

\* lines 425-428
RECURSIVE originalStringInAListOf(_, _, _)
originalStringInAListOf(asAList, k, acc) ==
    IF k > Len(asAList) THEN acc
    ELSE originalStringInAListOf(asAList, k + 1,
                                 IF ~asAList[k].esc THEN Append(acc, asAList[k].text) ELSE acc)

(* Lines 448-458 compute in Python floats (IEEE 754 binary64).  A float     *)
(* greater than 0 is held exactly as mantissa * 2^(-shift - 52): the        *)
(* mantissa, a number of 53 bits or a few more, is top * 2^52 plus four     *)
(* limbs of 13 bits, low[1] the most significant.                           *)

Limb == 2^13

\* the least s with L * 2^s >= O, counted up from s
RECURSIVE normalShift(_, _, _)
normalShift(L, O, s) == IF L * 2^s >= O THEN s ELSE normalShift(L, O, s + 1)

\* long division: the next k limbs of r / O, followed by the remainder left
RECURSIVE quotientLimbs(_, _, _)
quotientLimbs(r, O, k) ==
    IF k = 0 THEN <<r>>
    ELSE <<(r * Limb) \div O>> \o quotientLimbs((r * Limb) % O, O, k - 1)

\* the mantissa top, low plus a, the carries taken through the limbs
addToMantissa(top, low, a) ==
    LET v4 == low[4] + a
        v3 == low[3] + (v4 \div Limb)
        v2 == low[2] + (v3 \div Limb)
        v1 == low[1] + (v2 \div Limb)
    IN [top |-> top + (v1 \div Limb),
        low |-> <<v1 % Limb, v2 % Limb, v3 % Limb, v4 % Limb>>]

\* round to nearest, ties to even: the part cut off, out of whole, rounds the
\* kept part up
roundsUp(cut, whole, keptIsOdd) == 2 * cut > whole \/ (2 * cut = whole /\ keptIsOdd)

\* the float with the limbs q[1..4] after the leading bit, rounded on the remainder q[5]
roundedQuotient(s, q, O) ==
    [shift |-> s] @@ addToMantissa(1, SubSeq(q, 1, 4),
                                   IF roundsUp(q[5], O, q[4] % 2 = 1) THEN 1 ELSE 0)

\* the float L / O for 1 <= L <= O, s being the shift that brings L / O into [1, 2)
floatDivideShifted(L, O, s) == roundedQuotient(s, quotientLimbs(L * 2^s - O, O, 4), O)

\* line 448: len( currentPart ) / originalStringLength
floatDivide(L, O) == floatDivideShifted(L, O, normalShift(L, O, 0))

\* the number of bits of n after the leading one
RECURSIVE bitsAbove(_)
bitsAbove(n) == IF n <= 1 THEN 0 ELSE 1 + bitsAbove(n \div 2)

\* the exact product top, low of a mantissa and T rounded to 53 bits, k being
\* the number of bits it has beyond 53
roundedProduct(shift, top, low, k) ==
    [shift |-> shift] @@ addToMantissa(top, [low EXCEPT ![4] = low[4] - (low[4] % 2^k)],
                                       IF roundsUp(low[4] % 2^k, 2^k, (low[4] \div 2^k) % 2 = 1)
                                       THEN 2^k ELSE 0)

\* the exact product of the mantissa of f and T, before rounding
exactProduct(f, T) ==
    LET p4 == f.low[4] * T
        p3 == f.low[3] * T + (p4 \div Limb)
        p2 == f.low[2] * T + (p3 \div Limb)
        p1 == f.low[1] * T + (p2 \div Limb)
    IN [top |-> f.top * T + (p1 \div Limb),
        low |-> <<p1 % Limb, p2 % Limb, p3 % Limb, p4 % Limb>>]

\* the float of the exact product p
roundProduct(shift, p) == roundedProduct(shift, p.top, p.low, bitsAbove(p.top))

\* line 448: ... * len( translatedString ), for T >= 1
floatTimes(f, T) == roundProduct(f.shift, exactProduct(f, T))

\* line 448: int( x )
intPart(x) == x.top \div 2^x.shift

\* round( x - int( x ), 0 ) is 1.0: the fraction, which the subtraction of
\* line 455 gives exactly, is greater than 1/2 (round() sends 1/2 to 0.0)
fractionRoundsUp(x) ==
    IF x.shift = 0
    THEN \/ x.low[1] > Limb \div 2
         \/ (x.low[1] = Limb \div 2 /\ SubSeq(x.low, 2, 4) # <<0, 0, 0>>)
    ELSE \/ 2 * (x.top % 2^x.shift) > 2^x.shift
         \/ (2 * (x.top % 2^x.shift) = 2^x.shift /\ x.low # <<0, 0, 0, 0>>)

\* lines 448-458 for the float x
roundedLength(x) == intPart(x) + (IF fractionRoundsUp(x) THEN 1 ELSE 0)

\* lines 448-458: int( x ) + int( round( x - int( x ), 0 ) ) for the float
\* x = L / O * T; 0 / O * T and L / O * 0 are 0.0
currentPartLengthRawOf(currentPartLen, originalStringLength, translatedLen) ==
    IF currentPartLen = 0 \/ translatedLen = 0 THEN 0
    ELSE roundedLength(floatTimes(floatDivide(currentPartLen, originalStringLength),
                                  translatedLen))

\* lines 513-521: the assertion on the adjusted index
adjustedIndexAssert(adjustedIndex, translatedString, splitDelimiter) ==
    IF Slice(translatedString, adjustedIndex, adjustedIndex + 1) = splitDelimiter
    THEN [status |-> "ok", value |-> adjustedIndex]
    ELSE [status |-> "AssertionError", value |-> adjustedIndex]

\* lines 502-503 and 508-509 raising in the failure case
adjustIndexFound_Raises(approximateIndex, translatedString, splitDelimiter, found, offset) ==
    IF found = -1 THEN [status |-> "AssertionError", value |-> approximateIndex]
    ELSE adjustedIndexAssert(offset + found, translatedString, splitDelimiter)

\* line 511 left out: the index found in the rest of the string is returned as it is
adjustIndexFound_NoOffset(approximateIndex, translatedString, splitDelimiter, found, offset) ==
    IF found = -1 THEN [status |-> "ok", value |-> approximateIndex]
    ELSE adjustedIndexAssert(found, translatedString, splitDelimiter)

\* lines 499-511: found is the value of rfind (offset 0) or find (offset approximateIndex)
adjustIndexFound(approximateIndex, translatedString, splitDelimiter, found, offset) ==
    IF found = -1 THEN [status |-> "ok", value |-> approximateIndex]
    ELSE adjustedIndexAssert(offset + found, translatedString, splitDelimiter)

\* lines 487-521
adjustIndex(approximateIndex, translatedString, splitDelimiter, goLeftForSplitMode) ==
    IF Slice(translatedString, approximateIndex, approximateIndex + 1) = splitDelimiter
    THEN adjustedIndexAssert(approximateIndex, translatedString, splitDelimiter)
    ELSE IF goLeftForSplitMode
    THEN adjustIndexFound(approximateIndex, translatedString, splitDelimiter,
                          RFind(Slice(translatedString, 0, approximateIndex), splitDelimiter), 0)
    ELSE adjustIndexFound(approximateIndex, translatedString, splitDelimiter,
                          Find(SliceFrom(translatedString, approximateIndex), splitDelimiter),
                          approximateIndex)

\* lines 465, 473, 480: the approximate index handed to _adjustIndex
approximateIndexOf(previousPartLength, currentPartLengthRaw) ==
    previousPartLength + currentPartLengthRaw

RECURSIVE splitLoop(_, _, _, _, _, _, _, _, _)

\* lines 466-481 for a part that is not the last, a being what _adjustIndex returned or raised
splitAt(i, originalStringInAList, translatedString, splitDelimiter, goLeftForSplitMode, previousPartLength, previousPartEndIndex, translatedStringAfterBeingSplit, currentPartLengthRaw, a, handed) ==
    IF a.status # "ok" THEN [status |-> a.status, value |-> <<>>, handed |-> handed]
    ELSE IF a.value = -1
    THEN \* lines 469-474: the except branch
         splitLoop(i + 1, originalStringInAList, translatedString, splitDelimiter,
                   goLeftForSplitMode, currentPartLengthRaw,
                   currentPartLengthRaw + currentPartLengthRaw,
                   Append(translatedStringAfterBeingSplit,
                          Slice(translatedString, previousPartEndIndex,
                                previousPartLength + currentPartLengthRaw)),
                   [handed EXCEPT ![Len(handed)].currentPartEndIndex =
                                      previousPartLength + currentPartLengthRaw])
    ELSE splitLoop(i + 1, originalStringInAList, translatedString, splitDelimiter,
                   goLeftForSplitMode, currentPartLengthRaw, a.value,
                   Append(translatedStringAfterBeingSplit,
                          Slice(translatedString, previousPartEndIndex, a.value)),
                   [handed EXCEPT ![Len(handed)].currentPartEndIndex = a.value])

\* lines 464-481, currentPartLengthRaw being the value of lines 448-458
splitPart(i, originalStringInAList, translatedString, splitDelimiter, goLeftForSplitMode, previousPartLength, previousPartEndIndex, translatedStringAfterBeingSplit, currentPartLengthRaw, handed) ==
    IF i + 1 # Len(originalStringInAList)
    THEN splitAt(i, originalStringInAList, translatedString, splitDelimiter,
                 goLeftForSplitMode, previousPartLength, previousPartEndIndex,
                 translatedStringAfterBeingSplit, currentPartLengthRaw,
                 adjustIndex(approximateIndexOf(previousPartLength, currentPartLengthRaw),
                             translatedString, splitDelimiter, goLeftForSplitMode),
                 Append(handed,
                        [approximateIndex |-> approximateIndexOf(previousPartLength,
                                                                 currentPartLengthRaw),
                         currentPartLengthRaw |-> currentPartLengthRaw,
                         currentPartEndIndex |-> -1]))
    ELSE splitLoop(i + 1, originalStringInAList, translatedString, splitDelimiter,
                   goLeftForSplitMode, currentPartLengthRaw, previousPartEndIndex,
                   Append(translatedStringAfterBeingSplit,
                          SliceFrom(translatedString, previousPartEndIndex)),
                   handed)

\* lines 446-481: the loop over range( numberOfPartsToSplit ), i counted from 0.
\* handed records, for every part that is not the last, the index handed to
\* _adjustIndex (line 465), the rounded length of the part and the end index used.
splitLoop(i, originalStringInAList, translatedString, splitDelimiter, goLeftForSplitMode, previousPartLength, previousPartEndIndex, translatedStringAfterBeingSplit, handed) ==
    IF i >= Len(originalStringInAList)
    THEN [status |-> "ok", value |-> translatedStringAfterBeingSplit, handed |-> handed]
    ELSE IF Len(Concat(originalStringInAList)) = 0
    THEN \* line 448: len( currentPart ) / 0
         [status |-> "ZeroDivisionError", value |-> <<>>, handed |-> handed]
    ELSE splitPart(i, originalStringInAList, translatedString, splitDelimiter,
                   goLeftForSplitMode, previousPartLength, previousPartEndIndex,
                   translatedStringAfterBeingSplit,
                   currentPartLengthRawOf(Len(originalStringInAList[i + 1]),
                                          Len(Concat(originalStringInAList)),
                                          Len(translatedString)),
                   handed)

\* line 440 with < in place of <=
isSinglePart_Strict(numberOfPartsToSplit) == numberOfPartsToSplit < 1

\* line 440 with == in place of <=
isSinglePart_OnlyOne(numberOfPartsToSplit) == numberOfPartsToSplit = 1

\* line 440
isSinglePart(numberOfPartsToSplit) == numberOfPartsToSplit <= 1

\* lines 430-484, originalStringInAList being the str entries of self.asAList
splitParts(originalStringInAList, translatedString, splitDelimiter, goLeftForSplitMode) ==
    IF isSinglePart(Len(originalStringInAList))
    THEN [status |-> "ok", value |-> <<translatedString>>, handed |-> <<>>]
    ELSE IF Len(originalStringInAList) > 1
    THEN splitLoop(0, originalStringInAList, translatedString, splitDelimiter,
                   goLeftForSplitMode, 0, 0, <<>>, <<>>)
    ELSE [status |-> "ok", value |-> <<>>, handed |-> <<>>]

\* lines 425-484, asAList being the value of self.asAList
splitTranslatedString(asAList, translatedString, splitDelimiter, goLeftForSplitMode) ==
    splitParts(originalStringInAListOf(asAList, 1, <<>>), translatedString, splitDelimiter,
               goLeftForSplitMode)

\* lines 400-405: the text one entry of asAList contributes
insertedText(entry, translatedStringAsAList, currentTranslatedStringEntry) ==
    IF ~entry.esc THEN translatedStringAsAList[currentTranslatedStringEntry + 1]
    ELSE entry.text

\* line 402 left out: the piece counter never advances
nextTranslatedStringEntry_Stuck(entry, currentTranslatedStringEntry) ==
    currentTranslatedStringEntry

\* line 402: the piece counter after one entry
nextTranslatedStringEntry(entry, currentTranslatedStringEntry) ==
    IF ~entry.esc THEN currentTranslatedStringEntry + 1 ELSE currentTranslatedStringEntry

\* lines 399-405: the loop that interleaves pieces and escaped entries
RECURSIVE insertLoop(_, _, _, _, _)
insertLoop(asAList, k, translatedStringAsAList, currentTranslatedStringEntry, tempString) ==
    IF k > Len(asAList) THEN [status |-> "ok", value |-> tempString]
    ELSE IF ~asAList[k].esc /\ currentTranslatedStringEntry + 1 > Len(translatedStringAsAList)
    THEN [status |-> "IndexError", value |-> <<>>]
    ELSE insertLoop(asAList, k + 1, translatedStringAsAList,
                    nextTranslatedStringEntry(asAList[k], currentTranslatedStringEntry),
                    tempString \o insertedText(asAList[k], translatedStringAsAList,
                                               currentTranslatedStringEntry))

---------------------------------------------------------------------------
(* The EscapeText object.  self.escapeSchema and self.escapeSequences are  *)
(* references: to the module-level defaultEscapeSchema (line 131) or       *)
(* pythonEscapeSequences (line 158), or to an object of the instance.      *)

None == [kind |-> "None", val |-> <<>>]
DictArg(d) == [kind |-> "dict", val |-> d]
ListArg(l) == [kind |-> "list", val |-> l]
StrArg(name) == [kind |-> "str", val |-> <<name>>]

defaultGoLeftForSplitMode == FALSE
defaultSplitDelimiter == <<" ">>

\* lines 130-141: how the constructor ends for the argument escapeSchema.
\* For a list or tuple the loop of line 136 asserts that the first entry has
\* two elements and then assigns into self.escapeSchema, an attribute that
\* nothing has set (an empty list is not among the arguments of the model).
initEscapeSchema(escapeSchema) ==
    IF escapeSchema.kind = "list" /\ escapeSchema.val # <<>>
    THEN (IF Len(escapeSchema.val[1]) # 2 THEN "AssertionError" ELSE "AttributeError")
    ELSE "ok"

\* lines 125-165, for escapeSchema None or a dict and escapeSequences None,
\* a list of str or 'python'
EscapeTextInit(string, escapeSchema, escapeSequences) ==
    [string |-> string,
     goLeftForSplitMode |-> defaultGoLeftForSplitMode,
     splitDelimiter |-> defaultSplitDelimiter,
     schemaRef |-> IF escapeSchema.kind = "None" THEN "default" ELSE "own",
     ownSchema |-> IF escapeSchema.kind = "dict" THEN escapeSchema.val ELSE <<>>,
     sequencesRef |-> IF escapeSequences = StrArg("python") THEN "python" ELSE "own",
     ownSequences |-> IF escapeSequences.kind = "list" THEN escapeSequences.val ELSE <<>>]

\* self.escapeSchema
escapeSchemaOf(self) ==
    IF self.schemaRef = "default" THEN defaultEscapeSchema ELSE self.ownSchema

\* self.escapeSequences
escapeSequencesOf(self) ==
    IF self.sequencesRef = "python" THEN pythonEscapeSequences ELSE self.ownSequences

\* self.asAList
asAList(self) == get_asAList(self.string, escapeSchemaOf(self), escapeSequencesOf(self))

\* lines 425-484, l being what self.asAList returned or raised
splitResult(l, translatedString, splitDelimiter, goLeftForSplitMode) ==
    IF l.status # "ok" THEN l
    ELSE splitTranslatedString(l.value, translatedString, splitDelimiter, goLeftForSplitMode)

\* lines 424-484
convertTranslatedStringToList(self, translatedString) ==
    splitResult(asAList(self), translatedString, self.splitDelimiter, self.goLeftForSplitMode)

\* lines 398-406, l being what self.asAList returned at line 399
insertResult(translatedStringAsAList, l) ==
    IF translatedStringAsAList.status # "ok"
    THEN [status |-> translatedStringAsAList.status, value |-> <<>>]
    ELSE insertLoop(l.value, 1, translatedStringAsAList.value, 0, <<>>)

\* lines 394-406
getTranslatedStringWithEscapesInserted(self, translatedString) ==
    insertResult(convertTranslatedStringToList(self, translatedString), asAList(self))

\* lines 242-244: the table after addEscapeSchema( myPair ), or the assertion
addEscapeSchema(escapeSchema, myPair) ==
    IF Len(myPair) # 2 THEN [status |-> "AssertionError", value |-> escapeSchema]
    ELSE [status |-> "ok", value |-> DictSet(escapeSchema, myPair[1], myPair[2])]

\* a str and a list handed to addEscapeSequence
StrItem(s) == [kind |-> "str", val |-> s]
ListItem(l) == [kind |-> "list", val |-> l]

\* a list object held as an entry of escapeSequences: never equal to a str
ListObject(l) == <<"list", l>>

\* lines 250-257: the list after addEscapeSequence( myItem ); for a list the
\* loop of lines 253-254 appends myItem itself once per element
addEscapeSequence(escapeSequences, myItem) ==
    IF myItem.kind = "str" THEN Append(escapeSequences, myItem.val)
    ELSE IF myItem.kind = "list"
    THEN escapeSequences \o [i \in 1..Len(myItem.val) |-> ListObject(myItem.val)]
    ELSE escapeSequences

---------------------------------------------------------------------------
(* Operations of a caller on context c.  translated is the caller's       *)
(* variable translatedString (lines 546-548); out is the last call and what it *)
(* returned or raised.                                                     *)

NoOut == [op |-> "none", c |-> 0, arg |-> <<>>, status |-> "ok", value |-> <<>>]

Globals == <<defaultEscapeSchema, pythonEscapeSequences>>

\* escapeObject = EscapeText( string, escapeSchema, escapeSequences ) (line 535);
\* when the constructor raises, escapeObject stays the object it was
NewEscapeText(c, string, escapeSchema, escapeSequences) ==
    /\ ctx' = IF initEscapeSchema(escapeSchema) = "ok"
              THEN [ctx EXCEPT ![c] = EscapeTextInit(string, escapeSchema, escapeSequences)]
              ELSE ctx
    /\ out' = [op |-> "EscapeText", c |-> c, arg |-> escapeSchema,
               status |-> initEscapeSchema(escapeSchema), value |-> <<>>]
    /\ UNCHANGED <<translated, Globals>>

\* escapeObject.string = s (line 551 of the usage example)
SetString(c, s) ==
    /\ ctx' = [ctx EXCEPT ![c].string = s]
    /\ out' = NoOut
    /\ UNCHANGED <<translated, Globals>>

\* escapeObject.goLeftForSplitMode = b (line 562)
SetGoLeftForSplitMode(c, b) ==
    /\ ctx[c].goLeftForSplitMode # b
    /\ ctx' = [ctx EXCEPT ![c].goLeftForSplitMode = b]
    /\ out' = NoOut
    /\ UNCHANGED <<translated, Globals>>

\* escapeObject.splitDelimiter = d
SetSplitDelimiter(c, d) ==
    /\ ctx[c].splitDelimiter # d
    /\ ctx' = [ctx EXCEPT ![c].splitDelimiter = d]
    /\ out' = NoOut
    /\ UNCHANGED <<translated, Globals>>

Returned(op, c, arg, r) ==
    [op |-> op, c |-> c, arg |-> arg, status |-> r.status, value |-> r.value]

\* escapeObject.convertStringToList( escapeObject.string )
CallConvertStringToList(c) ==
    /\ out' = Returned("convertStringToList", c, <<>>,
                       convertStringToList(ctx[c].string, escapeSchemaOf(ctx[c]),
                                           escapeSequencesOf(ctx[c])))
    /\ UNCHANGED <<ctx, translated, Globals>>

\* escapeObject.asAList
ReadAsAList(c) ==
    /\ out' = Returned("asAList", c, <<>>, asAList(ctx[c]))
    /\ UNCHANGED <<ctx, translated, Globals>>

\* escapeObject.text
ReadText(c) ==
    /\ out' = Returned("text", c, <<>>,
                       text(ctx[c].string, escapeSchemaOf(ctx[c]), escapeSequencesOf(ctx[c])))
    /\ UNCHANGED <<ctx, translated, Globals>>

\* translatedString = t (lines 546-548)
SetTranslatedString(t) ==
    /\ translated' = t
    /\ out' = NoOut
    /\ UNCHANGED <<ctx, Globals>>

\* escapeObject.convertTranslatedStringToList( translatedString )
CallConvertTranslatedStringToList(c) ==
    /\ out' = Returned("convertTranslatedStringToList", c, translated,
                       convertTranslatedStringToList(ctx[c], translated))
    /\ UNCHANGED <<ctx, translated, Globals>>

\* the call with the returned string kept as the string of the context
CallGetTranslatedStringWithEscapesInserted_Rebinds(c) ==
    /\ out' = Returned("getTranslatedStringWithEscapesInserted", c, translated,
                       getTranslatedStringWithEscapesInserted(ctx[c], translated))
    /\ ctx' = [ctx EXCEPT ![c].string =
                 getTranslatedStringWithEscapesInserted(ctx[c], translated).value]
    /\ UNCHANGED <<translated, Globals>>

\* escapeObject.getTranslatedStringWithEscapesInserted( translatedString )
CallGetTranslatedStringWithEscapesInserted(c) ==
    /\ out' = Returned("getTranslatedStringWithEscapesInserted", c, translated,
                       getTranslatedStringWithEscapesInserted(ctx[c], translated))
    /\ UNCHANGED <<ctx, translated, Globals>>

\* escapeObject.addEscapeSchema( myPair ): the dict self.escapeSchema refers to
\* is changed in place
AddEscapeSchema(c, myPair) ==
    /\ IF ctx[c].schemaRef = "default"
       THEN /\ defaultEscapeSchema' = addEscapeSchema(defaultEscapeSchema, myPair).value
            /\ ctx' = ctx
       ELSE /\ ctx' = [ctx EXCEPT ![c].ownSchema = addEscapeSchema(ctx[c].ownSchema, myPair).value]
            /\ defaultEscapeSchema' = defaultEscapeSchema
    /\ out' = [op |-> "addEscapeSchema", c |-> c, arg |-> myPair,
               status |-> addEscapeSchema(escapeSchemaOf(ctx[c]), myPair).status,
               value |-> <<>>]
    /\ UNCHANGED <<translated, pythonEscapeSequences>>

\* escapeObject.addEscapeSequence( myItem ): the list self.escapeSequences
\* refers to is changed in place
AddEscapeSequence(c, myItem) ==
    /\ Len(addEscapeSequence(escapeSequencesOf(ctx[c]), myItem)) <= MaxSequences
    /\ IF ctx[c].sequencesRef = "python"
       THEN /\ pythonEscapeSequences' = addEscapeSequence(pythonEscapeSequences, myItem)
            /\ ctx' = ctx
       ELSE /\ ctx' = [ctx EXCEPT ![c].ownSequences = addEscapeSequence(ctx[c].ownSequences, myItem)]
            /\ pythonEscapeSequences' = pythonEscapeSequences
    /\ out' = [op |-> "addEscapeSequence", c |-> c, arg |-> myItem,
               status |-> "ok", value |-> <<>>]
    /\ UNCHANGED <<translated, defaultEscapeSchema>>

\* lines 448-458 on their own: the rounded length of a part of L characters
\* out of O for a translation of T characters, <<L, O, T>> being the lengths
\* the caller holds in out.arg
ComputeCurrentPartLengthRaw ==
    /\ out.op = "lengths"
    /\ out' = [out EXCEPT !.op = "currentPartLengthRaw",
                          !.value = currentPartLengthRawOf(out.arg[1], out.arg[2], out.arg[3])]
    /\ UNCHANGED <<ctx, translated, Globals>>

---------------------------------------------------------------------------
(* Module-level objects, restricted to the characters of the model *)

\* lines 75-83: the half-width pairs < > and [ ]
DefaultEscapeSchemaInit == << <<<<"<">>, <<">">>>>, <<<<"[">>, <<"]">>>> >>

\* lines 89-105: the entries \\ and \n
PythonEscapeSequencesInit == << <<"\\", "\\">>, <<"\\", "n">> >>

---------------------------------------------------------------------------
(* Specification of segmentation: one context, any configuration of the    *)
(* constructor, any string of at most MaxLen characters.                   *)

SegSchemaArgs == {None, DictArg(<<>>), DictArg(<< <<<<"<">>, <<">", ">">>>> >>)}
SegSequenceArgs == {None, ListArg(<< <<"\\", "n">> >>), StrArg("python")}

InitSeg ==
    /\ defaultEscapeSchema = DefaultEscapeSchemaInit
    /\ pythonEscapeSequences = PythonEscapeSequencesInit
    /\ \E sa \in SegSchemaArgs, ea \in SegSequenceArgs :
          ctx = [c \in Contexts |-> IF c = 1 THEN EscapeTextInit(<<>>, sa, ea)
                                    ELSE EscapeTextInit(<<>>, None, None)]
    /\ translated = <<>>
    /\ out = NoOut

\* the strings a caller binds next: the empty string or one more character
SegStrings(c) ==
    {<<>>} \cup (IF Len(ctx[c].string) < MaxLen
                 THEN {Append(ctx[c].string, ch) : ch \in SegChars} ELSE {})

NextSeg ==
    \/ \E s \in SegStrings(1) : SetString(1, s)
    \/ CallConvertStringToList(1)
    \/ ReadAsAList(1)
    \/ ReadText(1)

SpecSeg == InitSeg /\ [][NextSeg]_vars

---------------------------------------------------------------------------
(* Specification of segmentation with delimiters that overlap: a table in  *)
(* which a closing delimiter equals its opening delimiter and one key is a *)
(* prefix of another, a table whose closing delimiter is a prefix of its   *)
(* opening delimiter, a table with a closing delimiter of two characters,  *)
(* and escape sequences one of which is a prefix of the other.             *)

LexSchemaArgs ==
    {DictArg(<< <<<<"<">>, <<"<">>>>, <<<<"<", "<">>, <<"n">>>> >>),
     DictArg(<< <<<<"<", "<">>, <<"<">>>>, <<<<"[">>, <<"]">>>> >>),
     DictArg(<< <<<<"<">>, <<">", ">">>>>, <<<<"[">>, <<"]">>>> >>)}
LexSequenceArgs ==
    {None, ListArg(<< <<"\\">>, <<"\\", "n">> >>), ListArg(<< <<"\\", "n">>, <<"\\">> >>)}

InitLex ==
    /\ defaultEscapeSchema = DefaultEscapeSchemaInit
    /\ pythonEscapeSequences = PythonEscapeSequencesInit
    /\ \E sa \in LexSchemaArgs, ea \in LexSequenceArgs :
          ctx = [c \in Contexts |-> IF c = 1 THEN EscapeTextInit(<<>>, sa, ea)
                                    ELSE EscapeTextInit(<<>>, None, None)]
    /\ translated = <<>>
    /\ out = NoOut

NextLex ==
    \/ \E s \in SegStrings(1) : SetString(1, s)
    \/ CallConvertStringToList(1)
    \/ ReadAsAList(1)

SpecLex == InitLex /\ [][NextLex]_vars

---------------------------------------------------------------------------
(* Specification of reinsertion: one context with the default schema, the  *)
(* source built from a letter and an empty bracket pair, any translated    *)
(* string of at most MaxTrans characters.                                  *)

SrcTokens == {<<"n">>, <<"<", ">">>}
SplitDelimiters == {<<" ">>, <<" ", " ">>}

\* the translated strings a caller tries next: empty or one more character
TransStrings ==
    {<<>>} \cup (IF Len(translated) < MaxTrans
                 THEN {Append(translated, ch) : ch \in TransChars} ELSE {})

InitRemap ==
    /\ defaultEscapeSchema = DefaultEscapeSchemaInit
    /\ pythonEscapeSequences = PythonEscapeSequencesInit
    /\ ctx = [c \in Contexts |-> EscapeTextInit(<<>>, None, None)]
    /\ translated = <<>>
    /\ out = NoOut

SrcStrings(c) ==
    {<<>>} \cup {ctx[c].string \o tok : tok \in {t \in SrcTokens :
                                                  Len(ctx[c].string) + Len(t) <= MaxSrcLen}}

NextRemap ==
    \/ \E s \in SrcStrings(1) : SetString(1, s)
    \/ \E b \in BOOLEAN : SetGoLeftForSplitMode(1, b)
    \/ \E d \in SplitDelimiters : SetSplitDelimiter(1, d)
    \/ \E t \in TransStrings : SetTranslatedString(t)
    \/ CallConvertTranslatedStringToList(1)
    \/ CallGetTranslatedStringWithEscapesInserted(1)

SpecRemap == InitRemap /\ [][NextRemap]_vars

---------------------------------------------------------------------------
(* Specification of two contexts constructed independently: context 2 with *)
(* the default schema and the 'python' preset, context 1 with either the   *)
(* defaults or a dict and a list of its own with the same content.  Both   *)
(* are rebound and read; addEscapeSchema and addEscapeSequence are called  *)
(* on context 1 only.                                                      *)

CtxSchemaArgs == {None, DictArg(DefaultEscapeSchemaInit)}
CtxSequenceArgs == {StrArg("python"), ListArg(PythonEscapeSequencesInit)}
CtxStrings == {<<"n", "<", "n", ">">>, <<"\\", "n">>, <<"n", "<", ">", "n">>}
CtxPairs == {<< <<"<">>, <<"n">> >>, << <<"n">>, <<">">> >>, << <<"<">> >>}
CtxItems == {StrItem(<<"n">>), ListItem(<< <<"n">> >>)}
CtxTranslations == {<<"n", " ">>}

InitCtx ==
    /\ defaultEscapeSchema = DefaultEscapeSchemaInit
    /\ pythonEscapeSequences = PythonEscapeSequencesInit
    /\ \E sa \in CtxSchemaArgs, ea \in CtxSequenceArgs :
          ctx = [c \in Contexts |-> IF c = 1 THEN EscapeTextInit(<<>>, sa, ea)
                                    ELSE EscapeTextInit(<<>>, None, StrArg("python"))]
    /\ translated = <<>>
    /\ out = NoOut

NextCtx ==
    \/ \E c \in Contexts, s \in CtxStrings : SetString(c, s)
    \/ \E myPair \in CtxPairs : AddEscapeSchema(1, myPair)
    \/ \E myItem \in CtxItems : AddEscapeSequence(1, myItem)
    \/ \E t \in CtxTranslations : SetTranslatedString(t)
    \/ \E c \in Contexts : ReadAsAList(c)
    \/ \E c \in Contexts : ReadText(c)
    \/ \E c \in Contexts : CallGetTranslatedStringWithEscapesInserted(c)

SpecCtx == InitCtx /\ [][NextCtx]_vars

---------------------------------------------------------------------------
(* Specification of construction: either context is constructed anew with  *)
(* escapeSchema None, a dict, a list of pairs or a list with an entry of   *)
(* one element, and read.                                                  *)

NewSchemaArgs ==
    {None, DictArg(DefaultEscapeSchemaInit),
     ListArg(<< << <<"<">>, <<">">> >>, << <<"[">>, <<"]">> >> >>),
     ListArg(<< << <<"<">> >> >>)}
NewSequenceArgs == {None, StrArg("python")}
NewStrings == {<<"n", "<", "n", ">">>, <<"\\", "n">>}

InitNew ==
    /\ defaultEscapeSchema = DefaultEscapeSchemaInit
    /\ pythonEscapeSequences = PythonEscapeSequencesInit
    /\ ctx = [c \in Contexts |-> EscapeTextInit(<<>>, None, None)]
    /\ translated = <<>>
    /\ out = NoOut

NextNew ==
    \/ \E c \in Contexts, s \in NewStrings, sa \in NewSchemaArgs, ea \in NewSequenceArgs :
          NewEscapeText(c, s, sa, ea)
    \/ \E c \in Contexts : ReadAsAList(c)

SpecNew == InitNew /\ [][NextNew]_vars

---------------------------------------------------------------------------
(* Specification of the rounding of lines 448-458 as a function: a part of *)
(* L characters out of O >= 2 (there is more than one part, none empty),   *)
(* a translation of T characters.                                          *)

InitRound ==
    /\ defaultEscapeSchema = DefaultEscapeSchemaInit
    /\ pythonEscapeSequences = PythonEscapeSequencesInit
    /\ ctx = [c \in Contexts |-> EscapeTextInit(<<>>, None, None)]
    /\ translated = <<>>
    /\ \E O \in 2..MaxOriginal : \E L \in 1..(O - 1) : \E T \in 0..MaxTranslation :
          out = [op |-> "lengths", c |-> 0, arg |-> <<L, O, T>>, status |-> "ok", value |-> 0]

NextRound == ComputeCurrentPartLengthRaw

SpecRound == InitRound /\ [][NextRound]_vars

---------------------------------------------------------------------------
(* Properties of segmentation, checked under SpecSeg *)

\* the context of the last call
Self == ctx[out.c]

IsPlainAt(list, k) == ~list[k].esc

\* C1: whenever convertStringToList returns, the texts of the returned
\* entries concatenated in order equal the input string.
C1_RoundTrip ==
    (out.op = "convertStringToList" /\ out.status = "ok")
        => Concat(Texts(out.value)) = Self.string

\* an opening delimiter of the table occurs at some index of s and its closing
\* delimiter does not occur in the text after it
UnclosedOpener(s, escapeSchema) ==
    \E k \in 1..Len(escapeSchema) :
        \E i \in 0..(Len(s) - Len(escapeSchema[k][1])) :
            /\ SubSeq(s, i + 1, i + Len(escapeSchema[k][1])) = escapeSchema[k][1]
            /\ Find(SliceFrom(s, i + Len(escapeSchema[k][1])), escapeSchema[k][2]) = -1

\* C2: for a string with an opening delimiter that has no closing delimiter
\* after it, segmentation ends in an exception and never returns a list.
C2_UnclosedRaises ==
    (out.op \in {"convertStringToList", "asAList"}
       /\ UnclosedOpener(Self.string, escapeSchemaOf(Self)))
        => out.status # "ok"

\* s contains no key of the table and no escape sequence, or both are empty
NoMarkup(s, escapeSchema, escapeSequences) ==
    \/ /\ \A k \in 1..Len(escapeSchema) : Find(s, escapeSchema[k][1]) = -1
       /\ \A k \in 1..Len(escapeSequences) : Find(s, escapeSequences[k]) = -1
    \/ escapeSchema = <<>> /\ escapeSequences = <<>>

\* C8: for a string without any opening delimiter and any escape sequence,
\* convertStringToList returns exactly one str entry, the string itself.
C8_NoMarkup ==
    (out.op = "convertStringToList"
       /\ NoMarkup(Self.string, escapeSchemaOf(Self), escapeSequencesOf(Self)))
        => (out.status = "ok" /\ out.value = <<Plain(Self.string)>>)

C8_Witness ==
    /\ out.op = "convertStringToList"
    /\ NoMarkup(Self.string, escapeSchemaOf(Self), escapeSequencesOf(Self))
    /\ Len(Self.string) >= 2
    /\ escapeSchemaOf(Self) # <<>>
    /\ escapeSequencesOf(Self) # <<>>
    /\ out.value = <<Plain(Self.string)>>

\* every delimiter of the table is one character and no character serves twice
BracketTable(escapeSchema) ==
    /\ \A k \in 1..Len(escapeSchema) :
          Len(escapeSchema[k][1]) = 1 /\ Len(escapeSchema[k][2]) = 1
    /\ Cardinality({escapeSchema[k][1][1] : k \in 1..Len(escapeSchema)}
                   \cup {escapeSchema[k][2][1] : k \in 1..Len(escapeSchema)})
         = 2 * Len(escapeSchema)

Openers(escapeSchema) == {escapeSchema[k][1][1] : k \in 1..Len(escapeSchema)}
Closers(escapeSchema) == {escapeSchema[k][2][1] : k \in 1..Len(escapeSchema)}
CloserOf(escapeSchema, ch) ==
    LET k == CHOOSE k \in 1..Len(escapeSchema) : escapeSchema[k][1][1] = ch
    IN escapeSchema[k][2][1]

\* Reference segmentation by one scan from the left: expect is the closing
\* character awaited ("" outside a span), cur the text gathered so far.
\* balanced is FALSE for a stray closer, a nested opener or an open span.
RECURSIVE Reference(_, _, _, _, _, _)
Reference(s, i, escapeSchema, expect, cur, acc) ==
    LET flush == IF cur = <<>> THEN acc ELSE Append(acc, Plain(cur))
    IN IF i > Len(s)
       THEN [balanced |-> expect = "", list |-> flush]
       ELSE IF expect = ""
       THEN IF s[i] \in Openers(escapeSchema)
            THEN Reference(s, i + 1, escapeSchema, CloserOf(escapeSchema, s[i]), <<s[i]>>, flush)
            ELSE IF s[i] \in Closers(escapeSchema)
            THEN [balanced |-> FALSE, list |-> <<>>]
            ELSE Reference(s, i + 1, escapeSchema, "", Append(cur, s[i]), acc)
       ELSE IF s[i] = expect
            THEN Reference(s, i + 1, escapeSchema, "", <<>>, Append(acc, Escaped(Append(cur, s[i]))))
            ELSE IF s[i] \in Openers(escapeSchema) \cup Closers(escapeSchema)
            THEN [balanced |-> FALSE, list |-> <<>>]
            ELSE Reference(s, i + 1, escapeSchema, expect, Append(cur, s[i]), acc)

\* s with every character of a bracketed span removed
RECURSIVE WithoutSpans(_)
WithoutSpans(list) ==
    IF list = <<>> THEN <<>>
    ELSE (IF Head(list).esc THEN <<>> ELSE Head(list).text) \o WithoutSpans(Tail(list))

\* C9: for a string whose one-character bracket pairs are balanced and not
\* nested, and no escape sequences, asAList is the reference segmentation
\* (each span from opener to closer one escaped entry, each non-empty run
\* between spans one str entry) and text is the string without its spans.
C9_Reference ==
    LET ref == Reference(Self.string, 1, escapeSchemaOf(Self), "", <<>>, <<>>)
    IN (out.op \in {"asAList", "text"}
          /\ escapeSequencesOf(Self) = <<>>
          /\ BracketTable(escapeSchemaOf(Self))
          /\ ref.balanced)
        => /\ out.status = "ok"
           /\ out.op = "asAList" => out.value = ref.list
           /\ out.op = "text" => out.value = WithoutSpans(ref.list)

C9_Witness ==
    LET ref == Reference(Self.string, 1, escapeSchemaOf(Self), "", <<>>, <<>>)
    IN /\ out.op = "asAList"
       /\ escapeSequencesOf(Self) = <<>>
       /\ BracketTable(escapeSchemaOf(Self))
       /\ ref.balanced
       /\ Len(out.value) = 3
       /\ ~out.value[1].esc /\ out.value[2].esc /\ ~out.value[3].esc
       /\ Len(out.value[2].text) = 2

\* C10: asAList has no empty str entry and is otherwise the list of
\* convertStringToList, entry for entry in the same order.
C10_EmptyFilter ==
    LET raw == convertStringToList(Self.string, escapeSchemaOf(Self), escapeSequencesOf(Self))
    IN (out.op = "asAList" /\ out.status = "ok")
        => /\ \A k \in 1..Len(out.value) : ~(~out.value[k].esc /\ out.value[k].text = <<>>)
           /\ out.value = SelectSeq(raw.value, LAMBDA e : e.esc \/ e.text # <<>>)

C10_Witness ==
    LET raw == convertStringToList(Self.string, escapeSchemaOf(Self), escapeSequencesOf(Self))
    IN /\ out.op = "asAList" /\ out.status = "ok"
       /\ \E k \in 1..Len(raw.value) : raw.value[k] = Plain(<<>>)
       /\ \E k \in 1..Len(raw.value) : raw.value[k] = Escaped(<<>>)
       /\ Len(out.value) >= 2

\* the escape sequences are non-empty strings, no two of them equal
DistinctLiterals(escapeSequences) ==
    /\ \A k \in 1..Len(escapeSequences) : IsStr(escapeSequences[k]) /\ escapeSequences[k] # <<>>
    /\ \A j, k \in 1..Len(escapeSequences) : escapeSequences[j] = escapeSequences[k] => j = k

\* C14: for a string whose one-character bracket pairs are balanced and not
\* nested and an escape set of distinct non-empty literals,
\* convertStringToList returns normally.
C14_ReturnsNormally ==
    (out.op = "convertStringToList"
       /\ BracketTable(escapeSchemaOf(Self))
       /\ DistinctLiterals(escapeSequencesOf(Self))
       /\ Reference(Self.string, 1, escapeSchemaOf(Self), "", <<>>, <<>>).balanced)
        => out.status = "ok"

Reverse(seq) == [k \in 1..Len(seq) |-> seq[Len(seq) + 1 - k]]

\* the lowest index at which one of the strings subs occurs in rest, -1 when
\* none does
LowestIndex(rest, subs) ==
    IF \A k \in 1..Len(subs) : Find(rest, subs[k]) = -1 THEN -1
    ELSE Min({Find(rest, subs[k]) : k \in {j \in 1..Len(subs) : Find(rest, subs[j]) # -1}})

Keys(escapeSchema) == [k \in 1..Len(escapeSchema) |-> escapeSchema[k][1]]

\* C20: on every remaining text of the bracket pass (a suffix of the string)
\* the key selected is one that occurs at the lowest index among the keys
\* present, whatever the order of the table; the entries of the bracket pass
\* start with the text before that index and the escaped entry at it; the
\* escape sequence selected on a remaining text of the second pass is likewise
\* one at the lowest index.
C20_LowestIndex ==
    out.op = "convertStringToList"
        => /\ \A j \in 0..Len(Self.string) :
                 LET rest == SliceFrom(Self.string, j)
                     cur == currentLowestIndexSchema(rest, escapeSchemaOf(Self), 1, NoneEntry)
                     rev == currentLowestIndexSchema(rest, Reverse(escapeSchemaOf(Self)), 1,
                                                     NoneEntry)
                 IN /\ cur.index = LowestIndex(rest, Keys(escapeSchemaOf(Self)))
                    /\ rev.index = cur.index
                    /\ cur.index # -1 => Find(rest, cur.key) = cur.index
           /\ \A j \in 0..Len(Self.string) :
                 LET rest == SliceFrom(Self.string, j)
                     cur == currentLowestIndexSequence(rest, escapeSequencesOf(Self), 1, NoneEntry)
                     rev == currentLowestIndexSequence(rest, Reverse(escapeSequencesOf(Self)), 1,
                                                       NoneEntry)
                 IN /\ cur.index = LowestIndex(rest, escapeSequencesOf(Self))
                    /\ rev.index = cur.index
                    /\ cur.index # -1 => Find(rest, cur.key) = cur.index
           /\ LET p == schemaPass(Self.string, escapeSchemaOf(Self))
                  first == LowestIndex(Self.string, Keys(escapeSchemaOf(Self)))
              IN (p.status = "ok"
                    /\ schemaFoundCounterOf(Self.string, escapeSchemaOf(Self), 1) >= 1)
                   => IF first = 0 THEN p.tempList[1].esc
                      ELSE /\ p.tempList[1] = Plain(Slice(Self.string, 0, first))
                           /\ p.tempList[2].esc

C20_Witness ==
    /\ out.op = "convertStringToList" /\ out.status = "ok"
    /\ Len(escapeSchemaOf(Self)) = 2
    /\ Find(Self.string, escapeSchemaOf(Self)[1][1]) > Find(Self.string, escapeSchemaOf(Self)[2][1])
    /\ Find(Self.string, escapeSchemaOf(Self)[2][1]) = 0
    /\ Len(out.value) >= 3
    /\ out.value[1] = Escaped(<<"[", "]">>)
    /\ out.value[2] = Escaped(<<"<", ">">>)

\* C28: the assertions of lines 312 and 370 never fail: convertStringToList
\* never ends with AssertionError, neither does the bracket pass nor the
\* split of any str entry; the counter of the bracket pass is 0 when line
\* 312 is reached and on a normal return the bracket pass has emitted as
\* many escaped entries as lines 274-277 counted.
C28_Counters ==
    LET n == schemaFoundCounterOf(Self.string, escapeSchemaOf(Self), 1)
        loop == schemaLoop(0, n, Self.string, initialTempList(Self.string, n),
                           escapeSchemaOf(Self))
        p == schemaPass(Self.string, escapeSchemaOf(Self))
    IN out.op = "convertStringToList"
        => /\ out.status # "AssertionError"
           /\ p.status # "AssertionError"
           /\ loop.status = "ok" => loop.schemaFoundCounter = 0
           /\ \A k \in 1..Len(p.tempList) :
                 ~p.tempList[k].esc
                   => /\ splitEntry(p.tempList[k].text, escapeSequencesOf(Self)).status
                           # "AssertionError"
                      /\ LET m == escapeSequenceFoundCounterOf(p.tempList[k].text,
                                                               escapeSequencesOf(Self), 1)
                             l == sequenceLoop(0, m, p.tempList[k].text, <<>>,
                                               escapeSequencesOf(Self))
                         IN l.status = "ok" => l.escapeSequenceFoundCounter = 0
           /\ out.status = "ok"
                => Len(SelectSeq(p.tempList, LAMBDA entry : entry.esc)) = n

C28_Witness ==
    /\ out.op = "convertStringToList" /\ out.status = "ok"
    /\ schemaFoundCounterOf(Self.string, escapeSchemaOf(Self), 1) = 1
    /\ Len(schemaPass(Self.string, escapeSchemaOf(Self)).tempList) = 3
    /\ escapeSequenceFoundCounterOf(schemaPass(Self.string, escapeSchemaOf(Self)).tempList[1].text,
                                    escapeSequencesOf(Self), 1) = 1
    /\ Len(out.value) = 4

\* the occurrences <<index, position in literals>> of the literals in s
Occurrences(s, literals) ==
    {o \in (0..Len(s)) \X (1..Len(literals)) :
        /\ o[1] + Len(literals[o[2]]) <= Len(s)
        /\ SubSeq(s, o[1] + 1, o[1] + Len(literals[o[2]])) = literals[o[2]]}

\* no two occurrences of literals in s share a character
NoOverlap(s, literals) ==
    \A o1, o2 \in Occurrences(s, literals) :
        o1 # o2 => \/ o1[1] + Len(literals[o1[2]]) <= o2[1]
                   \/ o2[1] + Len(literals[o2[2]]) <= o1[1]

\* Reference split by one scan from the left: each occurrence of a literal
\* is an escaped entry, each non-empty run between occurrences a str entry.
\* i is the 0-based index read, cur the run gathered so far.
RECURSIVE LiteralSplit(_, _, _, _, _)
LiteralSplit(s, literals, i, cur, acc) ==
    LET flush == IF cur = <<>> THEN acc ELSE Append(acc, Plain(cur))
        here == {o \in Occurrences(s, literals) : o[1] = i}
        lit == literals[(CHOOSE o \in here : TRUE)[2]]
    IN IF i >= Len(s) THEN flush
       ELSE IF here # {}
       THEN LiteralSplit(s, literals, i + Len(lit), <<>>, Append(flush, Escaped(lit)))
       ELSE LiteralSplit(s, literals, i + 1, Append(cur, s[i + 1]), acc)

NonEmpty(list) == SelectSeq(list, LAMBDA entry : entry.esc \/ entry.text # <<>>)

\* C24: a str entry of the bracket pass in which the escape sequences (non-
\* empty strings) do not overlap is left alone when none occurs in it and is
\* else split into one escaped entry per occurrence, its text the literal,
\* in order of occurrence, with the text between the occurrences as str
\* entries, none of which contains a literal; a string that is one such
\* entry is returned as that list.
C24_LiteralSplit ==
    LET p == schemaPass(Self.string, escapeSchemaOf(Self))
        literals == escapeSequencesOf(Self)
    IN (out.op = "convertStringToList" /\ p.status = "ok"
          /\ \A j \in 1..Len(literals) : IsStr(literals[j]) /\ literals[j] # <<>>)
        => /\ \A k \in 1..Len(p.tempList) :
                 (~p.tempList[k].esc /\ NoOverlap(p.tempList[k].text, literals))
                   => LET r == splitEntry(p.tempList[k].text, literals)
                      IN IF Occurrences(p.tempList[k].text, literals) = {}
                         THEN r.status = "skip"
                         ELSE /\ r.status = "ok"
                              /\ NonEmpty(r.tempList2)
                                   = LiteralSplit(p.tempList[k].text, literals, 0, <<>>, <<>>)
                              /\ \A m \in 1..Len(r.tempList2) :
                                    ~r.tempList2[m].esc
                                      => Occurrences(r.tempList2[m].text, literals) = {}
           /\ (p.tempList = <<Plain(Self.string)>> /\ NoOverlap(Self.string, literals))
                => /\ out.status = "ok"
                   /\ NonEmpty(out.value) = LiteralSplit(Self.string, literals, 0, <<>>, <<>>)

C24_Witness ==
    /\ out.op = "convertStringToList" /\ out.status = "ok"
    /\ Len(escapeSequencesOf(Self)) = 2
    /\ NoOverlap(Self.string, escapeSequencesOf(Self))
    /\ out.value = <<Plain(<<"n">>), Escaped(<<"\\", "n">>), Plain(<<"n">>)>>

---------------------------------------------------------------------------
(* Properties of segmentation with overlapping delimiters, checked under   *)
(* SpecLex                                                                 *)

\* the positions in subs of the strings that occur in rest at the lowest index
TiedAtLowest(rest, subs) ==
    {k \in 1..Len(subs) : Find(rest, subs[k]) # -1
                            /\ Find(rest, subs[k]) = LowestIndex(rest, subs)}

\* C21 as stated: when several keys of the table, or several escape
\* sequences, occur at the same lowest index of a remaining text, the one
\* evaluated last in iteration order is selected.
C21_LastWins ==
    out.op = "convertStringToList"
        => \A j \in 0..Len(Self.string) :
              LET rest == SliceFrom(Self.string, j)
                  keys == Keys(escapeSchemaOf(Self))
                  items == escapeSequencesOf(Self)
              IN /\ TiedAtLowest(rest, keys) # {}
                      => currentLowestIndexSchema(rest, escapeSchemaOf(Self), 1, NoneEntry).key
                           = keys[Max(TiedAtLowest(rest, keys))]
                 /\ TiedAtLowest(rest, items) # {}
                      => currentLowestIndexSequence(rest, items, 1, NoneEntry).key
                           = items[Max(TiedAtLowest(rest, items))]

\* C21 amended: when several keys of the table, or several escape sequences,
\* occur at the same lowest index of a remaining text, the one evaluated
\* first in iteration order is selected, and the bracket pass processes that
\* key: the escaped entry it emits first ends with the first occurrence of
\* the closing delimiter of that key.
C21_FirstWins ==
    out.op = "convertStringToList"
        => /\ \A j \in 0..Len(Self.string) :
                 LET rest == SliceFrom(Self.string, j)
                     keys == Keys(escapeSchemaOf(Self))
                     items == escapeSequencesOf(Self)
                 IN /\ TiedAtLowest(rest, keys) # {}
                         => currentLowestIndexSchema(rest, escapeSchemaOf(Self), 1, NoneEntry).key
                              = keys[Min(TiedAtLowest(rest, keys))]
                    /\ TiedAtLowest(rest, items) # {}
                         => currentLowestIndexSequence(rest, items, 1, NoneEntry).key
                              = items[Min(TiedAtLowest(rest, items))]
           /\ LET keys == Keys(escapeSchemaOf(Self))
                  p == schemaPass(Self.string, escapeSchemaOf(Self))
              IN (p.status = "ok" /\ Cardinality(TiedAtLowest(Self.string, keys)) >= 2
                    /\ LowestIndex(Self.string, keys) = 0)
                   => p.tempList[1]
                        = schemaEntry(Self.string,
                                      Find(Self.string,
                                           escapeSchemaOf(Self)[Min(TiedAtLowest(Self.string, keys))][2]))

C21_Witness ==
    /\ out.op = "convertStringToList" /\ out.status = "ok"
    /\ Cardinality(TiedAtLowest(Self.string, Keys(escapeSchemaOf(Self)))) = 2
    /\ LowestIndex(Self.string, Keys(escapeSchemaOf(Self))) = 0
    /\ Len(escapeSequencesOf(Self)) = 2
    /\ Len(Self.string) >= 3
    /\ out.value[1] = Escaped(<<"<">>)
    /\ out.value[2] = Escaped(<<"<">>)

\* The bracketed spans of rest read from the left: from the key selected to
\* the end of the first occurrence of its closing delimiter after the key,
\* the scan going on right behind it.  complete is FALSE when a key selected
\* has no closing delimiter after it.
RECURSIVE FullSpans(_, _, _)
FullSpans(rest, escapeSchema, acc) ==
    LET cur == currentLowestIndexSchema(rest, escapeSchema, 1, NoneEntry)
        after == SliceFrom(rest, cur.index + Len(cur.key))
        closer == Lookup(escapeSchema, cur.key)
        e == Find(after, closer)
    IN IF cur.index = -1 THEN [complete |-> TRUE, spans |-> acc]
       ELSE IF e = -1 THEN [complete |-> FALSE, spans |-> acc]
       ELSE FullSpans(SliceFrom(after, e + Len(closer)), escapeSchema,
                      Append(acc, cur.key \o Slice(after, 0, e + Len(closer))))

\* C22: when every key selected has its closing delimiter after it, the
\* escaped entries of the bracket pass are, in order, the spans from each
\* key selected to the end of the first occurrence of its closing delimiter
\* after the key, also for a closing delimiter of several characters or one
\* that equals or begins the key.
C22_FullSpan ==
    LET p == schemaPass(Self.string, escapeSchemaOf(Self))
        ref == FullSpans(Self.string, escapeSchemaOf(Self), <<>>)
    IN (out.op = "convertStringToList" /\ ref.complete)
        => /\ p.status = "ok"
           /\ Texts(SelectSeq(p.tempList, LAMBDA entry : entry.esc)) = ref.spans

\* C30: whenever asAList is returned, no two str entries are adjacent in
\* it: of any two neighbours at least one is an escaped entry.  Two escaped
\* entries may be neighbours.
C30_Alternation ==
    (out.op = "asAList" /\ out.status = "ok")
        => \A k \in 1..(Len(out.value) - 1) : out.value[k].esc \/ out.value[k + 1].esc

C30_Witness ==
    /\ out.op = "asAList" /\ out.status = "ok"
    /\ Len(out.value) = 4
    /\ ~out.value[1].esc /\ out.value[2].esc /\ out.value[3].esc /\ ~out.value[4].esc
    /\ escapeSequencesOf(Self) # <<>>

---------------------------------------------------------------------------
(* Properties of reinsertion, checked under SpecRemap *)

\* the str entries of self.asAList
PlainParts(self) == SelectSeq(asAList(self).value, LAMBDA e : ~e.esc)

\* the number of str entries among the first k entries of list
PlainRank(list, k) == Cardinality({j \in 1..k : ~list[j].esc})

\* C3: for a source with at least one str entry, the pieces returned by
\* convertTranslatedStringToList concatenated in order equal the translated
\* string.
C3_PiecesCover ==
    (out.op = "convertTranslatedStringToList" /\ out.status = "ok"
       /\ Len(PlainParts(Self)) >= 1)
        => Concat(out.value) = out.arg

\* C4: the string returned by getTranslatedStringWithEscapesInserted is the
\* concatenation, in the order of asAList, of the text of each escaped entry
\* and, for the k-th str entry, the k-th piece of the split translation.
C4_Interleaving ==
    (out.op = "getTranslatedStringWithEscapesInserted" /\ out.status = "ok")
        => LET list == asAList(Self).value
               pieces == convertTranslatedStringToList(Self, out.arg).value
           IN out.value = Concat([k \in 1..Len(list) |->
                                     IF list[k].esc THEN list[k].text
                                     ELSE pieces[PlainRank(list, k)]])

C4_Witness ==
    /\ out.op = "getTranslatedStringWithEscapesInserted" /\ out.status = "ok"
    /\ Len(PlainParts(Self)) = 3
    /\ Len(asAList(Self).value) >= 6
    /\ Len(out.arg) = 3
    /\ \A k \in 1..3 : convertTranslatedStringToList(Self, out.arg).value[k] # <<>>

\* C5 as stated: convertTranslatedStringToList returns exactly n pieces for a
\* source with n str entries, n = 0 included.
C5_Original ==
    (out.op = "convertTranslatedStringToList" /\ out.status = "ok")
        => Len(out.value) = Len(PlainParts(Self))

\* C5 amended: the list convertTranslatedStringToList returns has exactly n
\* pieces for a source with n >= 1 str entries, and exactly one piece, the
\* translated string, for a source with none.
C5_PieceCount ==
    (out.op = "convertTranslatedStringToList" /\ out.status = "ok")
        => LET n == Len(PlainParts(Self))
           IN IF n = 0 THEN out.value = <<out.arg>> ELSE Len(out.value) = n

C5_Witness ==
    /\ out.op = "convertTranslatedStringToList" /\ out.status = "ok"
    /\ Len(PlainParts(Self)) = 4
    /\ Len(out.value) = 4
    /\ Find(out.arg, Self.splitDelimiter) # -1
    /\ Self.goLeftForSplitMode

\* C6: for a source with at least one str entry and a non-empty translated
\* string, convertTranslatedStringToList and
\* getTranslatedStringWithEscapesInserted return normally whatever the split
\* delimiter and direction.
C6_NeverRaises ==
    (out.op \in {"convertTranslatedStringToList", "getTranslatedStringWithEscapesInserted"}
       /\ Len(PlainParts(Self)) >= 1 /\ out.arg # <<>>)
        => out.status = "ok"

\* C7: with at most one str entry convertTranslatedStringToList returns the
\* one-element list of the translated string; with exactly one str entry and
\* no escaped entry getTranslatedStringWithEscapesInserted returns the
\* translated string.
C7_SinglePiece ==
    /\ (out.op = "convertTranslatedStringToList" /\ Len(PlainParts(Self)) <= 1)
         => (out.status = "ok" /\ out.value = <<out.arg>>)
    /\ (out.op = "getTranslatedStringWithEscapesInserted"
          /\ Len(asAList(Self).value) = 1 /\ Len(PlainParts(Self)) = 1)
         => (out.status = "ok" /\ out.value = out.arg)

C7_Witness ==
    /\ out.op = "getTranslatedStringWithEscapesInserted"
    /\ Len(asAList(Self).value) = 1 /\ Len(PlainParts(Self)) = 1
    /\ Len(Self.string) >= 2
    /\ Find(out.arg, Self.splitDelimiter) = 1
    /\ out.value = out.arg

\* what convertTranslatedStringToList does on the translation of the last call
SplitOfLastCall == convertTranslatedStringToList(Self, out.arg)

\* the sum of the rounded lengths of the first i parts
RECURSIVE RunningCursor(_, _)
RunningCursor(handed, i) ==
    IF i = 0 THEN 0 ELSE RunningCursor(handed, i - 1) + handed[i].currentPartLengthRaw

\* C16: with more than one str entry, the index handed to _adjustIndex for
\* every part that is not the last is the sum of the rounded lengths of the
\* parts up to and including it.
C16_RunningCursor ==
    (out.op = "convertTranslatedStringToList" /\ Len(PlainParts(Self)) > 1)
        => \A i \in 1..Len(SplitOfLastCall.handed) :
              SplitOfLastCall.handed[i].approximateIndex
                = RunningCursor(SplitOfLastCall.handed, i)

\* the character of t at the 0-based index j is the one-character delimiter
IsDelimiterAt(t, j, splitDelimiter) == j < Len(t) /\ <<t[j + 1]>> = splitDelimiter

\* the index _adjustIndex is to return for a: a itself on the delimiter,
\* else the nearest delimiter after a (before a when going left), -1 when
\* there is none on that side
Snapped(a, t, splitDelimiter, goLeft) ==
    LET side == IF goLeft THEN {j \in 0..(Len(t) - 1) : j < a /\ IsDelimiterAt(t, j, splitDelimiter)}
                ELSE {j \in 0..(Len(t) - 1) : j > a /\ IsDelimiterAt(t, j, splitDelimiter)}
    IN IF IsDelimiterAt(t, a, splitDelimiter) THEN a
       ELSE IF side = {} THEN -1
       ELSE IF goLeft THEN Max(side) ELSE Min(side)

\* C18: with a one-character delimiter, every index a handed to _adjustIndex
\* comes back as a when the character at a is the delimiter, and else as the
\* smallest index after a (going right) or the largest index before a (going
\* left) that holds the delimiter, when there is one; the index returned then
\* holds the delimiter.
C18_Snap ==
    (out.op = "convertTranslatedStringToList" /\ Len(Self.splitDelimiter) = 1
       /\ Len(PlainParts(Self)) > 1)
        => /\ out.status = "ok"
           /\ \A i \in 1..Len(SplitOfLastCall.handed) :
                 LET h == SplitOfLastCall.handed[i]
                     j == Snapped(h.approximateIndex, out.arg, Self.splitDelimiter,
                                  Self.goLeftForSplitMode)
                 IN j # -1 => /\ h.currentPartEndIndex = j
                              /\ IsDelimiterAt(out.arg, h.currentPartEndIndex, Self.splitDelimiter)

C18_Witness ==
    /\ out.op = "convertTranslatedStringToList" /\ out.status = "ok"
    /\ Len(Self.splitDelimiter) = 1
    /\ ~Self.goLeftForSplitMode
    /\ Len(SplitOfLastCall.handed) >= 2
    /\ \E i \in 1..Len(SplitOfLastCall.handed) :
          /\ SplitOfLastCall.handed[i].currentPartEndIndex
               > SplitOfLastCall.handed[i].approximateIndex
          /\ SplitOfLastCall.handed[i].approximateIndex >= 1
          /\ IsDelimiterAt(out.arg, SplitOfLastCall.handed[i].currentPartEndIndex,
                           Self.splitDelimiter)

\* the delimiter occurs in t at the 0-based index j
OccursAt(t, j, splitDelimiter) ==
    j + Len(splitDelimiter) <= Len(t)
      /\ SubSeq(t, j + 1, j + Len(splitDelimiter)) = splitDelimiter

\* the delimiter is neither at a nor anywhere on the side searched from a:
\* in t[ a : ] going right, in t[ : a ] going left
NoneOnSide(a, t, splitDelimiter, goLeft) ==
    /\ ~(Len(splitDelimiter) = 1 /\ OccursAt(t, a, splitDelimiter))
    /\ \A j \in 0..Len(t) :
          OccursAt(t, j, splitDelimiter)
            => IF goLeft THEN j + Len(splitDelimiter) > a ELSE j < a

\* C19: when the delimiter is neither at the index handed to _adjustIndex
\* nor on the side searched from it, the end index used for that piece is
\* that index itself; a call in which this is so for every part raises no
\* exception and returns one piece per str entry.
C19_Degrades ==
    (out.op = "convertTranslatedStringToList" /\ Len(PlainParts(Self)) > 1)
        => /\ \A i \in 1..Len(SplitOfLastCall.handed) :
                 NoneOnSide(SplitOfLastCall.handed[i].approximateIndex, out.arg,
                            Self.splitDelimiter, Self.goLeftForSplitMode)
                   => SplitOfLastCall.handed[i].currentPartEndIndex
                        = SplitOfLastCall.handed[i].approximateIndex
           /\ (\A i \in 1..Len(SplitOfLastCall.handed) :
                  NoneOnSide(SplitOfLastCall.handed[i].approximateIndex, out.arg,
                             Self.splitDelimiter, Self.goLeftForSplitMode))
                => (out.status = "ok" /\ Len(out.value) = Len(PlainParts(Self)))

C19_Witness ==
    /\ out.op = "convertTranslatedStringToList" /\ out.status = "ok"
    /\ Len(PlainParts(Self)) = 3
    /\ Len(out.value) = 3
    /\ Find(out.arg, Self.splitDelimiter) = 0
    /\ ~Self.goLeftForSplitMode
    /\ \A i \in 1..2 :
          /\ SplitOfLastCall.handed[i].approximateIndex >= 1
          /\ NoneOnSide(SplitOfLastCall.handed[i].approximateIndex, out.arg,
                        Self.splitDelimiter, Self.goLeftForSplitMode)
          /\ SplitOfLastCall.handed[i].currentPartEndIndex
               = SplitOfLastCall.handed[i].approximateIndex

\* the str entries of self.asAList as convertTranslatedStringToList collects them
OriginalParts(self) == originalStringInAListOf(asAList(self).value, 1, <<>>)

\* C29: no call divides by zero; when there is more than one str entry, none
\* of them is empty and the length line 448 divides by is at least 2 and at
\* least the number of str entries, whatever string is bound and also for
\* an empty translated string.
C29_Divisor ==
    out.op \in {"convertTranslatedStringToList", "getTranslatedStringWithEscapesInserted"}
        => /\ out.status # "ZeroDivisionError"
           /\ Len(OriginalParts(Self)) > 1
                => /\ \A k \in 1..Len(OriginalParts(Self)) : OriginalParts(Self)[k] # <<>>
                   /\ Len(Concat(OriginalParts(Self))) >= 2
                   /\ Len(Concat(OriginalParts(Self))) >= Len(OriginalParts(Self))

C29_Witness ==
    /\ out.op = "convertTranslatedStringToList" /\ out.status = "ok"
    /\ Len(OriginalParts(Self)) = 2
    /\ Len(Concat(OriginalParts(Self))) = 2
    /\ \E k \in 1..Len(convertStringToList(Self.string, escapeSchemaOf(Self),
                                            escapeSequencesOf(Self)).value) :
          convertStringToList(Self.string, escapeSchemaOf(Self),
                              escapeSequencesOf(Self)).value[k] = Plain(<<>>)
    /\ out.arg = <<>>
    /\ out.value = <<<<>>, <<>>>>

---------------------------------------------------------------------------
(* Properties of the rounding, checked under SpecRound *)

\* floor( L * T / O ) + ( 1 if 2 * ( ( L * T ) mod O ) > O else 0 )
HalfEvenLength(L, O, T) ==
    ((L * T) \div O) + (IF 2 * ((L * T) % O) > O THEN 1 ELSE 0)

\* C17: the rounded length of a part is floor( x ) + 1 when the fraction of
\* x = L * T / O is greater than 1/2 and floor( x ) otherwise; an exact half
\* never rounds up.
C17_Rounding ==
    out.op = "currentPartLengthRaw"
        => out.value = HalfEvenLength(out.arg[1], out.arg[2], out.arg[3])

---------------------------------------------------------------------------
(* Properties of contexts, checked under SpecCtx *)

ReadOps == {"asAList", "text", "getTranslatedStringWithEscapesInserted"}
AddOps == {"addEscapeSchema", "addEscapeSequence"}

\* what a context constructed anew on the string, table and escape set of
\* self returns for the read or call op with the translation t
FreshResult(op, self, t) ==
    IF op = "asAList" THEN asAList(self)
    ELSE IF op = "text"
    THEN text(self.string, escapeSchemaOf(self), escapeSequencesOf(self))
    ELSE getTranslatedStringWithEscapesInserted(self, t)

schemaIterations(self) ==
    LET n == schemaFoundCounterOf(self.string, escapeSchemaOf(self), 1)
    IN [bound |-> n,
        made |-> n - schemaLoop(0, n, self.string, initialTempList(self.string, n),
                                escapeSchemaOf(self)).schemaFoundCounter]

\* the iterations the loop of line 345 made on the str entry, and the count
\* of lines 332-334 it was given
sequenceIterations(entry, escapeSequences) ==
    LET m == escapeSequenceFoundCounterOf(entry, escapeSequences, 1)
    IN [bound |-> m,
        made |-> m - sequenceLoop(0, m, entry, <<>>, escapeSequences).escapeSequenceFoundCounter]

Outcomes == {"ok", "TypeError", "AssertionError", "IndexError"}

\* C15: every read and call ends, by a return or an exception; the loop of
\* the bracket pass makes at most as many iterations as the count computed
\* before it, the loop of the escape-sequence pass likewise for every str
\* entry, and the split of the translation makes one piece per iteration,
\* at most one per str entry.
C15_Bounded ==
    out.op \in ReadOps
        => /\ out.status \in Outcomes
           /\ schemaIterations(Self).made \in 0..schemaIterations(Self).bound
           /\ \A k \in 1..Len(schemaPass(Self.string, escapeSchemaOf(Self)).tempList) :
                 LET e == schemaPass(Self.string, escapeSchemaOf(Self)).tempList[k]
                 IN (~e.esc /\ \A j \in 1..Len(escapeSequencesOf(Self)) :
                                   IsStr(escapeSequencesOf(Self)[j]))
                      => sequenceIterations(e.text, escapeSequencesOf(Self)).made
                           \in 0..sequenceIterations(e.text, escapeSequencesOf(Self)).bound
           /\ (out.op = "getTranslatedStringWithEscapesInserted" /\ out.status = "ok")
                => Len(convertTranslatedStringToList(Self, out.arg).value)
                     <= Max({1, Len(SelectSeq(asAList(Self).value, LAMBDA e : ~e.esc))})

C15_Witness ==
    /\ out.op = "getTranslatedStringWithEscapesInserted" /\ out.status = "ok"
    /\ schemaIterations(Self).made >= 1
    /\ Len(SelectSeq(asAList(Self).value, LAMBDA e : ~e.esc)) = 2
    /\ Len(convertTranslatedStringToList(Self, out.arg).value) = 2
    /\ out.arg # <<>>

\* C23: every escaped entry of the bracket pass is an entry of asAList,
\* unchanged and behind the same text as in the list of the bracket pass,
\* also when it contains an escape sequence of the context; only str
\* entries are split.
C23_NotRescanned ==
    (out.op = "asAList" /\ out.status = "ok")
        => LET p == schemaPass(Self.string, escapeSchemaOf(Self)).tempList
           IN /\ \A k \in 1..Len(p) :
                    p[k].esc
                      => \E m \in 1..Len(out.value) :
                            /\ out.value[m] = p[k]
                            /\ Concat(Texts(SubSeq(out.value, 1, m - 1)))
                                 = Concat(Texts(SubSeq(p, 1, k - 1)))
              /\ Len(SelectSeq(out.value, LAMBDA entry : entry.esc))
                   >= Len(SelectSeq(p, LAMBDA entry : entry.esc))

C23_Witness ==
    /\ out.op = "asAList" /\ out.status = "ok"
    /\ LET p == schemaPass(Self.string, escapeSchemaOf(Self)).tempList
       IN /\ \E k \in 1..Len(p) :
                /\ p[k].esc
                /\ \E j \in 1..Len(escapeSequencesOf(Self)) :
                       Find(p[k].text, escapeSequencesOf(Self)[j]) # -1
          /\ Len(SelectSeq(out.value, LAMBDA entry : entry.esc))
               > Len(SelectSeq(p, LAMBDA entry : entry.esc))

\* the list tempList with every str entry in which an escape sequence occurs
\* replaced, where it stands, by the entries it was split into
RECURSIVE InPlace(_, _)
InPlace(tempList, escapeSequences) ==
    IF tempList = <<>> THEN <<>>
    ELSE (IF ~Head(tempList).esc
             /\ Occurrences(Head(tempList).text, escapeSequences) # {}
          THEN splitEntry(Head(tempList).text, escapeSequences).tempList2
          ELSE <<Head(tempList)>>)
         \o InPlace(Tail(tempList), escapeSequences)

\* C25: asAList is, empty str entries apart, the list of the bracket pass
\* with every str entry in which an escape sequence occurs replaced at its
\* own position by the entries it was split into and every other entry left
\* where it was, also when two str entries have the same text or an entry of
\* a split equals another entry.
C25_InPlace ==
    (out.op = "asAList" /\ out.status = "ok" /\ escapeSequencesOf(Self) # <<>>)
        => out.value = NonEmpty(InPlace(schemaPass(Self.string, escapeSchemaOf(Self)).tempList,
                                        escapeSequencesOf(Self)))

C25_Witness ==
    /\ out.op = "asAList" /\ out.status = "ok"
    /\ LET p == schemaPass(Self.string, escapeSchemaOf(Self)).tempList
       IN /\ Len(p) = 3
          /\ p[1] = p[3] /\ ~p[1].esc /\ p[2].esc
          /\ Occurrences(p[1].text, escapeSequencesOf(Self)) # {}
    /\ Len(out.value) = 3
    /\ \A m \in 1..3 : out.value[m].esc

\* C12: whatever is added to context 1 and whatever strings are bound,
\* context 2 keeps the table and the escape set it was constructed with, and
\* its asAList is the segmentation of its string under these.
C12_Isolation ==
    /\ escapeSchemaOf(ctx[2]) = DefaultEscapeSchemaInit
    /\ escapeSequencesOf(ctx[2]) = PythonEscapeSequencesInit
    /\ (out.op = "asAList" /\ out.c = 2)
         => LET r == get_asAList(ctx[2].string, DefaultEscapeSchemaInit,
                                 PythonEscapeSequencesInit)
            IN out.status = r.status /\ out.value = r.value

\* the strings addEscapeSequence( myItem ) is to add
Literals(myItem) == IF myItem.kind = "list" THEN myItem.val ELSE <<myItem.val>>

\* C26: addEscapeSequence with a list of k strings appends exactly these k
\* strings to the escape sequences of the context, with one string that
\* string, so that every entry of the escape sequences is a str.
C26_AddsEach ==
    [][\A c \in Contexts :
          (out'.op = "addEscapeSequence" /\ out'.c = c)
            => /\ escapeSequencesOf(ctx[c])' = escapeSequencesOf(ctx[c]) \o Literals(out'.arg)
               /\ \A k \in 1..Len(escapeSequencesOf(ctx[c])') :
                     IsStr(escapeSequencesOf(ctx[c])'[k])]_vars

\* the table a list of pairs stands for
RECURSIVE TableOf(_, _)
TableOf(pairs, table) ==
    IF pairs = <<>> THEN table
    ELSE TableOf(Tail(pairs), DictSet(table, Head(pairs)[1], Head(pairs)[2]))

\* C27: the constructor called with a list of entries of two elements
\* returns a context whose table maps the first element of each entry to
\* the second, and called with a dict a context whose table is that dict.
C27_ListOfPairs ==
    out.op = "EscapeText"
        => /\ (out.arg.kind = "list"
                 /\ \A k \in 1..Len(out.arg.val) : Len(out.arg.val[k]) = 2)
                => /\ out.status = "ok"
                   /\ escapeSchemaOf(ctx[out.c]) = TableOf(out.arg.val, <<>>)
           /\ out.arg.kind = "dict"
                => /\ out.status = "ok"
                   /\ escapeSchemaOf(ctx[out.c]) = out.arg.val

\* the key of myPair is in the table with another closing delimiter
Rebinds(escapeSchema, myPair) ==
    \E k \in 1..Len(escapeSchema) :
        escapeSchema[k][1] = myPair[1] /\ escapeSchema[k][2] # myPair[2]

\* C13: addEscapeSchema with a key the table already maps to a different
\* closing delimiter is rejected and leaves the table unchanged.
C13_Rejected ==
    [][\A c \in Contexts :
          (out'.op = "addEscapeSchema" /\ out'.c = c /\ Len(out'.arg) = 2
             /\ Rebinds(escapeSchemaOf(ctx[c]), out'.arg))
            => /\ out'.status # "ok"
               /\ escapeSchemaOf(ctx[c])' = escapeSchemaOf(ctx[c])]_vars

====
